---- MODULE Spec2Model ----
(***************************************************************************)
(* Model of the battlesheep contract: the stored games (src/src/state.rs)  *)
(* and the message handlers (src/src/contract.rs).                         *)
(*                                                                         *)
(* Option<T> is modelled as a sequence: <<>> is None, <<v>> is Some(v).    *)
(* Errors are cosmwasm generic_err strings in the source; the model names  *)
(* each error site by the error kind of the specification.                 *)
(***************************************************************************)
EXTENDS Integers, Sequences, FiniteSets, TLC

VARIABLES storage, request, response, binary, shotTurn, shotBy

vars ==
    <<storage, request, response, binary, shotTurn, shotBy>>

(***************************************************************************)
(* Bounds of the model.                                                    *)
(***************************************************************************)

\* most shots the two players of a game may have recorded together before
\* Confirm is no longer issued to that game
MaxShots ==
    2

\* longest herd list of a pasture submitted in the pasture specification
MaxHerds ==
    5

(***************************************************************************)
(* Program constants.                                                      *)
(***************************************************************************)

PASTURE_SIZE ==
    10

\* u8::MAX, the value saturating_add saturates at
U8Max ==
    255

None ==
    <<>>

Some(v) ==
    <<v>>

(***************************************************************************)
(* Board model: Coords, Orientation, Herd.                                 *)
(***************************************************************************)

Coords(x, y) ==
    [x |-> x, y |-> y]

Orientation ==
    {"Horizontal", "Vertical"}

Herd(x, y, length, orientation) ==
    [coords |-> Coords(x, y), length |-> length, orientation |-> orientation]

\* u8::saturating_add
saturating_add(a, b) ==
    IF a + b > U8Max THEN U8Max ELSE a + b

\* Herd::end.  `length - 1` is u8 arithmetic; every caller runs after
\* Herd::verify has rejected length 0, so the wrapped value is never used.
end(herd) ==
    IF herd.orientation = "Horizontal"
    THEN Coords(saturating_add(herd.coords.x, (herd.length - 1) % (U8Max + 1)),
                herd.coords.y)
    ELSE Coords(herd.coords.x,
                saturating_add(herd.coords.y, (herd.length - 1) % (U8Max + 1)))

is_at(herd, coord) ==
    IF herd.orientation = "Horizontal"
    THEN herd.coords.y = coord.y /\ coord.x >= herd.coords.x /\ coord.x <= end(herd).x
    ELSE herd.coords.x = coord.x /\ coord.y >= herd.coords.y /\ coord.y <= end(herd).y

\* ranges_intersect without its second case
ranges_intersect_one_sided(s1, e1, s2, e2) ==
    s1 >= s2 /\ s1 <= e2

ranges_intersect(s1, e1, s2, e2) ==
    (s1 >= s2 /\ s1 <= e2) \/ (s1 < s2 /\ e1 >= s2)

intersects(herd, other) ==
    /\ ranges_intersect(herd.coords.x, end(herd).x, other.coords.x, end(other).x)
    /\ ranges_intersect(herd.coords.y, end(herd).y, other.coords.y, end(other).y)

\* Herd::verify comparing the end with > where the source has >=
herd_verify_off_by_one(herd) ==
    IF herd.length = 0
    THEN "InvalidHerd"
    ELSE IF end(herd).x > PASTURE_SIZE \/ end(herd).y > PASTURE_SIZE
         THEN "InvalidHerd"
         ELSE "Ok"

herd_verify(herd) ==
    IF herd.length = 0
    THEN "InvalidHerd"
    ELSE IF end(herd).x >= PASTURE_SIZE \/ end(herd).y >= PASTURE_SIZE
         THEN "InvalidHerd"
         ELSE "Ok"

(***************************************************************************)
(* Pasture validator.                                                      *)
(***************************************************************************)

Pasture(herds, shots) ==
    [herds |-> herds, shots |-> shots]

expected_herd_count_of_length(length) ==
    CASE length = 2 -> 1
      [] length = 3 -> 2
      [] length = 4 -> 1
      [] length = 5 -> 1
      [] OTHER -> 0

\* the HashMap<u8, u32> built by Pasture::verify: the lengths present ...
herd_lengths(pasture) ==
    {pasture.herds[i].length : i \in DOMAIN pasture.herds}

\* ... and the count stored for each of them
herd_count(pasture, length) ==
    Cardinality({i \in DOMAIN pasture.herds : pasture.herds[i].length = length})

\* Pasture::verify.  The first loop returns at the first herd that fails
\* Herd::verify, before any count is compared; the second loop visits only
\* the lengths that are keys of the map; the third compares every ordered
\* pair of distinct indices.
pasture_verify(pasture) ==
    IF \E i \in DOMAIN pasture.herds : herd_verify(pasture.herds[i]) # "Ok"
    THEN "InvalidHerd"
    ELSE IF \E length \in herd_lengths(pasture) :
               \/ expected_herd_count_of_length(length) > herd_count(pasture, length)
               \/ expected_herd_count_of_length(length) < herd_count(pasture, length)
         THEN "WrongHerdCount"
         ELSE IF \E i, j \in DOMAIN pasture.herds :
                    i # j /\ intersects(pasture.herds[i], pasture.herds[j])
              THEN "OverlappingHerds"
              ELSE "Ok"

(***************************************************************************)
(* Player registry.                                                        *)
(***************************************************************************)

Credentials(game, username, password) ==
    [game |-> game, username |-> username, password |-> password]

Player(username, password, pasture) ==
    [username |-> username, password |-> password, pasture |-> pasture]

\* Player::matches_credentials comparing the username alone
matches_credentials_username_only(player, credentials) ==
    player.username = credentials.username

matches_credentials(player, credentials) ==
    player.username = credentials.username /\ player.password = credentials.password

\* Player::pasture: the pasture only for matching credentials
player_pasture(stored, credentials) ==
    IF ~matches_credentials(stored, credentials)
    THEN None
    ELSE Some(stored.pasture)

(***************************************************************************)
(* Game lifecycle.  A GameState is [players, turn, next_shot]; players are *)
(* indexed from 1 in the model, so index turn of the source is turn + 1.   *)
(***************************************************************************)

GameStateDefault ==
    [players |-> <<>>, turn |-> 0, next_shot |-> None]

\* Game::may_load / the Option read by Game::load
may_load(store, name) ==
    store[name]

\* Game::save: the whole GameState is written under the game's name
save(store, name, state) ==
    [store EXCEPT ![name] = Some(state)]

\* Game::full refusing only a game with fewer than two players
full_at_least_two(state) ==
    IF Len(state.players) < 2 THEN "GameNotReady" ELSE "Ok"

\* Game::full: Ok only with exactly two players
full(state) ==
    IF Len(state.players) # 2 THEN "GameNotReady" ELSE "Ok"

\* the result of Game::add_player
add_player_result(state, player) ==
    IF Len(state.players) = 1 /\ state.players[1].username = player.username
    THEN "UsernameTaken"
    ELSE IF Len(state.players) > 2
         THEN "GameFull"
         ELSE pasture_verify(player.pasture)

\* the state Game::add_player leaves when it returns Ok
add_player(state, player) ==
    [state EXCEPT !.players = Append(@, player)]

(***************************************************************************)
(* Turn engine (FullGame).                                                 *)
(***************************************************************************)

player(state) ==
    state.players[state.turn + 1]

opponent(state) ==
    state.players[((state.turn + 1) % 2) + 1]

shoot(state, coords) ==
    [state EXCEPT !.next_shot = Some(coords)]

\* confirm_shot pushing to opponent_mut() where the source has player_mut()
confirm_shot_to_opponent(state, coords) ==
    [state EXCEPT !.players[((state.turn + 1) % 2) + 1].pasture.shots = Append(@, coords)]

confirm_shot(state, coords) ==
    [state EXCEPT !.players[state.turn + 1].pasture.shots = Append(@, coords)]

end_turn(state) ==
    [state EXCEPT !.next_shot = None, !.turn = (state.turn + 1) % 2]

\* FullGame::next_shot
next_shot(state) ==
    state.next_shot

Shots(hits, misses) ==
    [hits |-> hits, misses |-> misses]

\* the partition both get_*_shots functions compute: the shots of a pasture
\* split by whether a herd of the same pasture is at the shot
partition_shots(own) ==
    LET Hit(shot) == \E i \in DOMAIN own.herds : is_at(own.herds[i], shot)
        Miss(shot) == ~Hit(shot)
    IN  Shots(SelectSeq(own.shots, Hit), SelectSeq(own.shots, Miss))

\* FullGame::get_player_shots reads the pasture of opponent()
get_player_shots(state) ==
    partition_shots(opponent(state).pasture)

\* FullGame::get_opponent_shots reads the pasture of player()
get_opponent_shots(state) ==
    partition_shots(player(state).pasture)

(***************************************************************************)
(* Inputs of the handlers.                                                 *)
(***************************************************************************)

Names ==
    {"g1"}

Usernames ==
    {"alice", "bob"}

Passwords ==
    {"pw1", "pw2"}

\* credentials a caller may present to Shoot, Confirm and the queries
CallerCredentials ==
    {Credentials(g, u, p) : g \in Names, u \in Usernames, p \in Passwords}

\* credentials presented to Join
JoinCredentials ==
    {Credentials(g, "alice", "pw1") : g \in Names}
        \cup {Credentials(g, "alice", "pw2") : g \in Names}
        \cup {Credentials(g, "bob", "pw2") : g \in Names}

\* coordinates passed to Shoot and Confirm
ShotCoords ==
    {Coords(0, 0), Coords(3, 3)}

h2 ==
    Herd(0, 0, 2, "Horizontal")

h3a ==
    Herd(0, 1, 3, "Horizontal")

h3b ==
    Herd(0, 2, 3, "Vertical")

h4 ==
    Herd(5, 5, 4, "Vertical")

h5 ==
    Herd(5, 9, 5, "Horizontal")

\* crosses h2 at (1,0) and h3a at (1,1)
h3c ==
    Herd(1, 0, 3, "Vertical")

\* no sheep
h0 ==
    Herd(3, 3, 0, "Horizontal")

\* last sheep at x = 10, outside the board
hOut ==
    Herd(8, 7, 3, "Horizontal")

\* last sheep beyond u8::MAX: saturating_add stops at 255
hSat ==
    Herd(250, 7, 10, "Vertical")

PastureA ==
    Pasture(<<h2, h3a, h3b, h4, h5>>, <<>>)

PastureB ==
    Pasture(<<Herd(3, 3, 5, "Vertical"), Herd(4, 3, 4, "Horizontal"),
              Herd(9, 0, 3, "Vertical"), Herd(0, 9, 3, "Horizontal"),
              Herd(6, 6, 2, "Horizontal")>>, <<>>)

\* a legal layout submitted with a shots list that is not empty
PastureShots ==
    Pasture(PastureB.herds, <<Coords(3, 3)>>)

PastureEmpty ==
    Pasture(<<>>, <<>>)

\* the second herd of length 3 is missing
PastureFour ==
    Pasture(<<h2, h3a, h4, h5>>, <<>>)

\* pastures submitted with Join in the game specification
JoinPastures ==
    {PastureA, PastureShots, PastureEmpty, PastureFour}

(***************************************************************************)
(* Request handlers.  request is the message being handled, response the   *)
(* StdResult returned for it ("Ok" or the error kind) and binary the data  *)
(* returned with it: None for the handle messages (HandleResponse::default *)
(* carries no data) and for errors, Some(Binary) for an answered query.    *)
(* shotTurn[name] and shotBy[name] are history variables: the value of    *)
(* turn at the last successful Shoot and the credentials it was sent with. *)
(***************************************************************************)

Request(op, name, credentials, coords, pasture) ==
    [op |-> op, name |-> name, credentials |-> credentials,
     coords |-> coords, pasture |-> pasture]

Init ==
    /\ storage = [name \in Names |-> None]
    /\ request = Request("init", None, None, None, None)
    /\ response = "Ok"
    /\ binary = None
    /\ shotTurn = [name \in Names |-> None]
    /\ shotBy = [name \in Names |-> None]

\* try_new_game without the may_load check
try_new_game_overwrite(name) ==
    /\ request' = Request("NewGame", Some(name), None, None, None)
    /\ binary' = None
    /\ UNCHANGED shotBy
    /\ storage' = save(storage, name, GameStateDefault)
    /\ response' = "Ok"
    /\ UNCHANGED shotTurn

try_new_game(name) ==
    /\ request' = Request("NewGame", Some(name), None, None, None)
    /\ binary' = None
    /\ UNCHANGED shotBy
    /\ IF may_load(storage, name) # None
       THEN /\ response' = "GameAlreadyExists"
            /\ UNCHANGED <<storage, shotTurn>>
       ELSE /\ storage' = save(storage, name, GameStateDefault)
            /\ response' = "Ok"
            /\ UNCHANGED shotTurn

try_join(credentials, pasture) ==
    /\ request' = Request("Join", Some(credentials.game), Some(credentials), None, Some(pasture))
    /\ binary' = None
    /\ UNCHANGED shotBy
    /\ UNCHANGED shotTurn
    /\ IF may_load(storage, credentials.game) = None
       THEN /\ response' = "GameNotFound"
            /\ UNCHANGED storage
       ELSE LET state == may_load(storage, credentials.game)[1]
                new == Player(credentials.username, credentials.password, pasture)
            IN  IF add_player_result(state, new) # "Ok"
                THEN /\ response' = add_player_result(state, new)
                     /\ UNCHANGED storage
                ELSE /\ storage' = save(storage, credentials.game, add_player(state, new))
                     /\ response' = "Ok"

\* try_shoot writing the shot before it checks the caller
try_shoot_save_first(credentials, coords) ==
    /\ request' = Request("Shoot", Some(credentials.game), Some(credentials), Some(coords), None)
    /\ binary' = None
    /\ IF may_load(storage, credentials.game) = None
       THEN /\ response' = "GameNotFound"
            /\ UNCHANGED <<storage, shotTurn, shotBy>>
       ELSE LET state == may_load(storage, credentials.game)[1]
            IN  IF full(state) # "Ok"
                THEN /\ response' = full(state)
                     /\ UNCHANGED <<storage, shotTurn, shotBy>>
                ELSE /\ storage' = save(storage, credentials.game, shoot(state, coords))
                     /\ IF matches_credentials(player(state), credentials)
                        THEN /\ response' = "NotYourTurn"
                             /\ UNCHANGED <<shotTurn, shotBy>>
                        ELSE /\ response' = "Ok"
                             /\ shotTurn' = [shotTurn EXCEPT ![credentials.game] = Some(state.turn)]
                             /\ shotBy' = [shotBy EXCEPT ![credentials.game] = Some(credentials)]

try_shoot(credentials, coords) ==
    /\ request' = Request("Shoot", Some(credentials.game), Some(credentials), Some(coords), None)
    /\ binary' = None
    /\ IF may_load(storage, credentials.game) = None
       THEN /\ response' = "GameNotFound"
            /\ UNCHANGED <<storage, shotTurn, shotBy>>
       ELSE LET state == may_load(storage, credentials.game)[1]
            IN  IF full(state) # "Ok"
                THEN /\ response' = full(state)
                     /\ UNCHANGED <<storage, shotTurn, shotBy>>
                ELSE IF matches_credentials(player(state), credentials)
                     THEN /\ response' = "NotYourTurn"
                          /\ UNCHANGED <<storage, shotTurn, shotBy>>
                     ELSE /\ storage' = save(storage, credentials.game, shoot(state, coords))
                          /\ response' = "Ok"
                          /\ shotTurn' = [shotTurn EXCEPT ![credentials.game] = Some(state.turn)]
                          /\ shotBy' = [shotBy EXCEPT ![credentials.game] = Some(credentials)]

try_confirm(credentials, coords) ==
    /\ request' = Request("Confirm", Some(credentials.game), Some(credentials), Some(coords), None)
    /\ binary' = None
    /\ UNCHANGED shotBy
    /\ UNCHANGED shotTurn
    /\ IF may_load(storage, credentials.game) = None
       THEN /\ response' = "GameNotFound"
            /\ UNCHANGED storage
       ELSE LET state == may_load(storage, credentials.game)[1]
            IN  IF full(state) # "Ok"
                THEN /\ response' = full(state)
                     /\ UNCHANGED storage
                ELSE IF matches_credentials(opponent(state), credentials)
                     THEN /\ response' = "NotYourTurn"
                          /\ UNCHANGED storage
                     ELSE /\ storage' = save(storage, credentials.game,
                                             end_turn(confirm_shot(state, coords)))
                          /\ response' = "Ok"

(***************************************************************************)
(* Queries.  A query reads the storage and returns StdResult<Binary>: the  *)
(* model returns [response, binary].  to_binary is JSON serialisation; a   *)
(* Binary is modelled as the JSON type written and the value it encodes,   *)
(* and () is written as JSON null.                                         *)
(***************************************************************************)

StdOk(data) ==
    [response |-> "Ok", binary |-> Some(data)]

StdErr(kind) ==
    [response |-> kind, binary |-> None]

\* to_binary(&())
to_binary_unit ==
    [json |-> "null", value |-> <<>>]

\* to_binary(&Pasture)
to_binary_pasture(own) ==
    [json |-> "Pasture", value |-> <<own>>]

\* the value of a block whose last expression ends in `;`: the expression
\* is evaluated and dropped, the block is ()
dropped(value) ==
    to_binary_unit

try_get_my_pasture(store, credentials) ==
    IF may_load(store, credentials.game) = None
    THEN StdErr("GameNotFound")
    ELSE LET state == may_load(store, credentials.game)[1]
         IN  IF full(state) # "Ok"
             THEN StdErr(full(state))
             ELSE IF player_pasture(player(state), credentials) = None
                  THEN StdErr("AuthMismatch")
                  ELSE StdOk(to_binary_pasture(player_pasture(player(state), credentials)[1]))

\* `shots` is bound to the value of the if-expression, whose branches end in
\* `game.get_player_shots();` and `game.get_opponent_shots();`
try_get_my_shots(store, credentials) ==
    IF may_load(store, credentials.game) = None
    THEN StdErr("GameNotFound")
    ELSE LET state == may_load(store, credentials.game)[1]
         IN  IF full(state) # "Ok"
             THEN StdErr(full(state))
             ELSE IF matches_credentials(player(state), credentials)
                  THEN StdOk(dropped(get_player_shots(state)))
                  ELSE IF matches_credentials(opponent(state), credentials)
                       THEN StdOk(dropped(get_opponent_shots(state)))
                       ELSE StdErr("AuthMismatch")

\* `last_shot` is bound to the value of a block ending in `game.next_shot();`
try_get_last_shot(store, credentials) ==
    IF may_load(store, credentials.game) = None
    THEN StdErr("GameNotFound")
    ELSE LET state == may_load(store, credentials.game)[1]
         IN  IF full(state) # "Ok"
             THEN StdErr(full(state))
             ELSE IF \/ matches_credentials(player(state), credentials)
                     \/ matches_credentials(opponent(state), credentials)
                  THEN StdOk(dropped(next_shot(state)))
                  ELSE StdErr("AuthMismatch")

\* query: the dispatch of a QueryMsg; nothing is written
query(op, credentials, result) ==
    /\ request' = Request(op, Some(credentials.game), Some(credentials), None, None)
    /\ response' = result.response
    /\ binary' = result.binary
    /\ UNCHANGED <<storage, shotTurn, shotBy>>

MyPasture ==
    \E credentials \in CallerCredentials :
        query("MyPasture", credentials, try_get_my_pasture(storage, credentials))

MyShots ==
    \E credentials \in CallerCredentials :
        query("MyShots", credentials, try_get_my_shots(storage, credentials))

LastShot ==
    \E credentials \in CallerCredentials :
        query("LastShot", credentials, try_get_last_shot(storage, credentials))

\* the model stops issuing Confirm to a full game whose two shots lists
\* already hold MaxShots coordinates
WithinMaxShots(name) ==
    IF may_load(storage, name) = None
    THEN TRUE
    ELSE IF full(may_load(storage, name)[1]) # "Ok"
         THEN TRUE
         ELSE Len(player(may_load(storage, name)[1]).pasture.shots)
                  + Len(opponent(may_load(storage, name)[1]).pasture.shots) < MaxShots

NewGame ==
    \E name \in Names : try_new_game(name)

\* the model issues Join to a game that already has two players only while
\* no Shoot has succeeded in it and its turn is 0
JoinBeforePlay(name) ==
    IF may_load(storage, name) = None
    THEN TRUE
    ELSE IF Len(may_load(storage, name)[1].players) < 2
         THEN TRUE
         ELSE shotTurn[name] = None /\ may_load(storage, name)[1].turn = 0

Join ==
    \E credentials \in JoinCredentials, pasture \in JoinPastures :
        /\ JoinBeforePlay(credentials.game)
        /\ try_join(credentials, pasture)

Shoot ==
    \E credentials \in CallerCredentials, coords \in ShotCoords :
        try_shoot(credentials, coords)

Confirm ==
    \E credentials \in CallerCredentials, coords \in ShotCoords :
        /\ WithinMaxShots(credentials.game)
        /\ try_confirm(credentials, coords)

Next ==
    \/ NewGame
    \/ Join
    \/ Shoot
    \/ Confirm
    \/ MyPasture
    \/ MyShots
    \/ LastShot

Spec ==
    Init /\ [][Next]_vars

(***************************************************************************)
(* Pasture specification: the first Join handled after NewGame, with the   *)
(* pasture drawn from every herd list of at most MaxHerds herds of the     *)
(* pool.                                                                   *)
(***************************************************************************)

HerdPool ==
    {h2, h3a, h3b, h4, h5, h3c, h0, hOut, hSat}

\* the herd lists of exactly n herds of the pool
HerdLists(n) ==
    [1..n -> HerdPool]

InitPasture ==
    /\ storage = [name \in Names |-> Some(GameStateDefault)]
    /\ request \in {Request("NewGame", Some(name), None, None, None) : name \in Names}
    /\ response = "Ok"
    /\ binary = None
    /\ shotTurn = [name \in Names |-> None]
    /\ shotBy = [name \in Names |-> None]

JoinPool ==
    /\ request.op = "NewGame"
    /\ \E name \in Names, n \in 0..MaxHerds :
           \E herds \in HerdLists(n) :
               try_join(Credentials(name, "alice", "pw1"), Pasture(herds, <<>>))

NextPasture ==
    JoinPool

SpecPasture ==
    InitPasture /\ [][NextPasture]_vars

(***************************************************************************)
(* Vocabulary of the properties.                                           *)
(***************************************************************************)

\* the stored state of a game that exists
StateOf(store, name) ==
    store[name][1]

\* a game that is stored and has exactly two players
IsFull(store, name) ==
    IF store[name] = None THEN FALSE ELSE Len(StateOf(store, name).players) = 2

\* the message just handled was op, addressed to the game name
Handled(req, op, name) ==
    req.op = op /\ req.name = Some(name)

\* username and password of the caller both equal those of the stored player
SameIdentity(stored, caller) ==
    stored.username = caller.username /\ stored.password = caller.password

\* the cells of the 10x10 board
Board ==
    {Coords(x, y) : x \in 0..(PASTURE_SIZE - 1), y \in 0..(PASTURE_SIZE - 1)}

\* the board cells a herd occupies, by Herd::is_at
CellsOf(herd) ==
    {cell \in Board : is_at(herd, cell)}

\* a herd list has two herds, at distinct indices, that occupy a common cell
HasOverlap(herds) ==
    \E i \in DOMAIN herds :
        \E cell \in CellsOf(herds[i]) :
            \E j \in DOMAIN herds : i # j /\ is_at(herds[j], cell)

\* the last sheep of a herd in unbounded arithmetic, where Herd::end saturates
LastSheep(herd) ==
    IF herd.orientation = "Horizontal"
    THEN Coords(herd.coords.x + herd.length - 1, herd.coords.y)
    ELSE Coords(herd.coords.x, herd.coords.y + herd.length - 1)

\* the herd has sheep and all of them are on the board
InsideBoard(herd) ==
    /\ herd.length > 0
    /\ herd.coords.x >= 0 /\ herd.coords.y >= 0
    /\ LastSheep(herd).x < PASTURE_SIZE /\ LastSheep(herd).y < PASTURE_SIZE

\* the number of herds of a length in a herd list
CountOfLength(herds, length) ==
    Cardinality({i \in DOMAIN herds : herds[i].length = length})

\* the herd lengths form exactly the multiset {2,3,3,4,5}
ExactHerdCount(herds) ==
    /\ Len(herds) = 5
    /\ CountOfLength(herds, 2) = 1
    /\ CountOfLength(herds, 3) = 2
    /\ CountOfLength(herds, 4) = 1
    /\ CountOfLength(herds, 5) = 1

(***************************************************************************)
(* C1: in a game with exactly two players a Shoot succeeds, and then sets  *)
(* next_shot to its coordinate, only when the caller's username and        *)
(* password equal those of the player at index turn; a Shoot by any other  *)
(* caller fails with NotYourTurn and leaves the stored state unchanged.    *)
(***************************************************************************)
C1_ShootOnlyByTurnPlayer ==
    [][\A name \in Names :
          (Handled(request', "Shoot", name) /\ IsFull(storage, name)) =>
              LET state == StateOf(storage, name)
                  caller == request'.credentials[1]
              IN  /\ response' = "Ok" =>
                         /\ SameIdentity(player(state), caller)
                         /\ StateOf(storage', name).next_shot = request'.coords
                  /\ ~SameIdentity(player(state), caller) =>
                         /\ response' = "NotYourTurn"
                         /\ storage' = storage]_vars

(***************************************************************************)
(* C2: in a game with exactly two players a Confirm succeeds only when the *)
(* caller's username and password equal those of the player at index       *)
(* (turn + 1) % 2; a Confirm by any other caller fails with NotYourTurn    *)
(* and leaves the stored state unchanged.                                  *)
(***************************************************************************)
C2_ConfirmOnlyByTarget ==
    [][\A name \in Names :
          (Handled(request', "Confirm", name) /\ IsFull(storage, name)) =>
              LET state == StateOf(storage, name)
                  caller == request'.credentials[1]
              IN  /\ response' = "Ok" => SameIdentity(opponent(state), caller)
                  /\ ~SameIdentity(opponent(state), caller) =>
                         /\ response' = "NotYourTurn"
                         /\ storage' = storage]_vars

(***************************************************************************)
(* C3: protocol ordering.  In a full game a Confirm handled while          *)
(* next_shot is None fails (NoShotPending, or NotYourTurn for a caller who *)
(* is not the target) and a Shoot handled while next_shot is Some fails    *)
(* (ShotAlreadyPending, or NotYourTurn for a caller who is not the turn    *)
(* player); neither changes the stored state.                              *)
(***************************************************************************)
C3_ProtocolOrdering ==
    [][\A name \in Names :
          IsFull(storage, name) =>
              LET state == StateOf(storage, name)
              IN  /\ (Handled(request', "Confirm", name) /\ state.next_shot = None) =>
                         /\ response' \in {"NoShotPending", "NotYourTurn"}
                         /\ SameIdentity(opponent(state), request'.credentials[1])
                                => response' = "NoShotPending"
                         /\ storage' = storage
                  /\ (Handled(request', "Shoot", name) /\ state.next_shot # None) =>
                         /\ response' \in {"ShotAlreadyPending", "NotYourTurn"}
                         /\ SameIdentity(player(state), request'.credentials[1])
                                => response' = "ShotAlreadyPending"
                         /\ storage' = storage]_vars

(***************************************************************************)
(* C4: turn alternation.  After every successful Confirm next_shot is None *)
(* and turn is the opposite index of the value turn had at the preceding   *)
(* successful Shoot (shotTurn); a Shoot never changes turn; turn is always *)
(* 0 or 1.                                                                 *)
(***************************************************************************)
C4_TurnAlternation ==
    [][\A name \in Names :
          storage'[name] # None =>
              /\ StateOf(storage', name).turn \in {0, 1}
              /\ (Handled(request', "Confirm", name) /\ response' = "Ok") =>
                     /\ StateOf(storage', name).next_shot = None
                     /\ shotTurn[name] # None =>
                            StateOf(storage', name).turn = (shotTurn[name][1] + 1) % 2
              /\ (Handled(request', "Shoot", name) /\ storage[name] # None) =>
                     StateOf(storage', name).turn = StateOf(storage, name).turn]_vars

(***************************************************************************)
(* C5: every stored game has at most 2 players, and a Join handled by a    *)
(* game that already has two players fails with GameFull and leaves the    *)
(* player list unchanged.                                                  *)
(***************************************************************************)
C5_AtMostTwoPlayers ==
    [][\A name \in Names :
          storage'[name] # None =>
              /\ Len(StateOf(storage', name).players) <= 2
              /\ (Handled(request', "Join", name) /\ IsFull(storage, name)) =>
                     /\ response' = "GameFull"
                     /\ StateOf(storage', name).players = StateOf(storage, name).players]_vars

(***************************************************************************)
(* C6: herd count.  The pasture of every stored player has herd lengths    *)
(* forming exactly the multiset {2,3,3,4,5}, and a Join whose pasture has  *)
(* any other multiset is not answered Ok.                                  *)
(***************************************************************************)
C6_HerdCount ==
    \A name \in Names :
        storage[name] # None =>
            /\ \A i \in DOMAIN StateOf(storage, name).players :
                   ExactHerdCount(StateOf(storage, name).players[i].pasture.herds)
            /\ (Handled(request, "Join", name) /\ ~ExactHerdCount(request.pasture[1].herds))
                   => response # "Ok"

C8_Containment ==
    \A name \in Names :
        storage[name] # None =>
            /\ \A i \in DOMAIN StateOf(storage, name).players :
                   \A k \in DOMAIN StateOf(storage, name).players[i].pasture.herds :
                       InsideBoard(StateOf(storage, name).players[i].pasture.herds[k])
            /\ (/\ Handled(request, "Join", name)
                /\ \E k \in DOMAIN request.pasture[1].herds :
                       ~InsideBoard(request.pasture[1].herds[k])) =>
                   /\ response = "InvalidHerd"
                   /\ StateOf(storage, name).players = <<>>

\* a Join whose only illegal herd ends at x = 10 was answered InvalidHerd
C8_Witness ==
    \E name \in Names :
        /\ Handled(request, "Join", name)
        /\ response = "InvalidHerd"
        /\ \E k \in DOMAIN request.pasture[1].herds : request.pasture[1].herds[k] = hOut
        /\ \A k \in DOMAIN request.pasture[1].herds :
               request.pasture[1].herds[k] \in {hOut, h2}

(***************************************************************************)
(* C9: a successful Confirm appends exactly one coordinate to the shots    *)
(* list of the player at index turn, leaves the other player unchanged,    *)
(* clears next_shot and sets turn to (turn + 1) % 2.                       *)
(***************************************************************************)
C9_ConfirmRecordsForTurnPlayer ==
    [][\A name \in Names :
          (Handled(request', "Confirm", name) /\ response' = "Ok") =>
              LET old == StateOf(storage, name)
                  new == StateOf(storage', name)
                  shooter == old.turn + 1
                  target == ((old.turn + 1) % 2) + 1
              IN  /\ Len(new.players) = 2
                  /\ Len(new.players[shooter].pasture.shots)
                         = Len(old.players[shooter].pasture.shots) + 1
                  /\ SubSeq(new.players[shooter].pasture.shots, 1,
                            Len(old.players[shooter].pasture.shots))
                         = old.players[shooter].pasture.shots
                  /\ new.players[shooter].pasture.herds = old.players[shooter].pasture.herds
                  /\ new.players[shooter].username = old.players[shooter].username
                  /\ new.players[shooter].password = old.players[shooter].password
                  /\ new.players[target] = old.players[target]
                  /\ new.next_shot = None
                  /\ new.turn = (old.turn + 1) % 2]_vars

\* a Confirm succeeded at turn 0: the player at index 0 holds its coordinate
\* as the only shot, the player at index 1 holds none, and the turn passed
C9_Witness ==
    \E name \in Names :
        /\ Handled(request, "Confirm", name)
        /\ response = "Ok"
        /\ StateOf(storage, name).turn = 1
        /\ StateOf(storage, name).players[1].pasture.shots = <<request.coords[1]>>
        /\ StateOf(storage, name).players[2].pasture.shots = <<>>

(***************************************************************************)
(* C10: the coordinate a successful Confirm records in the shots list of   *)
(* the player at index turn is the pending shot, the value held in         *)
(* next_shot when the Confirm is handled.                                  *)
(***************************************************************************)
C10_ConfirmRecordsPendingShot ==
    [][\A name \in Names :
          (/\ Handled(request', "Confirm", name)
           /\ response' = "Ok"
           /\ StateOf(storage, name).next_shot # None) =>
              LET old == StateOf(storage, name)
                  recorded == StateOf(storage', name).players[old.turn + 1].pasture.shots
              IN  recorded[Len(recorded)] = old.next_shot[1]]_vars

(***************************************************************************)
(* Vocabulary of the query properties.                                     *)
(***************************************************************************)

\* index (1 or 2) of the other player of a full game
Other(i) ==
    3 - i

\* the shots fired by the player at index i of a full game, split by whether
\* a herd of the other player is at the shot
ShotsAgainstTarget(state, i) ==
    LET fired == state.players[i].pasture.shots
        target == state.players[Other(i)].pasture.herds
        Hit(shot) == \E k \in DOMAIN target : is_at(target[k], shot)
        Miss(shot) == ~Hit(shot)
    IN  Shots(SelectSeq(fired, Hit), SelectSeq(fired, Miss))

\* the Binary a query returns for a Shots value
BinaryOfShots(shots) ==
    [json |-> "Shots", value |-> <<shots>>]

\* the Binary a query returns for an Option<Coords>: None is JSON null
BinaryOfOptionCoords(option) ==
    IF option = None
    THEN [json |-> "null", value |-> <<>>]
    ELSE [json |-> "Coords", value |-> option]

\* the message just handled was sent with credentials equal to those of the
\* player at index i of the game
CallerIs(req, state, i) ==
    SameIdentity(state.players[i], req.credentials[1])

(***************************************************************************)
(* C11: QueryMyShots by either player of a full game is answered with      *)
(* Shots{hits, misses}, the partition of the shots that caller has fired   *)
(* by whether the shot is on a cell occupied by a herd of the other        *)
(* player.                                                                 *)
(***************************************************************************)
C11_MyShotsPartition ==
    \A name \in Names :
        (Handled(request, "MyShots", name) /\ IsFull(storage, name)) =>
            \A i \in {1, 2} :
                CallerIs(request, StateOf(storage, name), i) =>
                    /\ response = "Ok"
                    /\ binary # None
                    /\ binary[1].json = "Shots"
                    /\ binary[1] = BinaryOfShots(ShotsAgainstTarget(StateOf(storage, name), i))

(***************************************************************************)
(* C12: strict alternation of shooters.  In a full game a Shoot by a       *)
(* player whose credentials are those of the last successful Shoot         *)
(* (shotBy) does not succeed: no player makes two successful Shoots        *)
(* without a successful Shoot by the other in between, and once the        *)
(* pending shot is confirmed the refusal is NotYourTurn.                   *)
(***************************************************************************)
C12_StrictAlternation ==
    [][\A name \in Names :
          (/\ Handled(request', "Shoot", name)
           /\ IsFull(storage, name)
           /\ \E i \in {1, 2} : CallerIs(request', StateOf(storage, name), i)
           /\ shotBy[name] = request'.credentials) =>
              /\ response' # "Ok"
              /\ StateOf(storage, name).next_shot = None => response' = "NotYourTurn"]_vars


(***************************************************************************)
(* Vocabulary of the persistence properties.                               *)
(***************************************************************************)

\* the messages of HandleMsg
HandleOps ==
    {"NewGame", "Join", "Shoot", "Confirm"}

\* the game a handled message names is stored
Stored(store, req) ==
    store[req.name[1]] # None

(***************************************************************************)
(* C13: no partial failure.  A NewGame, Join, Shoot or Confirm that        *)
(* returns an error leaves the stored state of every game as it was; the   *)
(* storage changes only in a step whose message is one of these four and   *)
(* is answered Ok, and then the whole transition is stored: the default    *)
(* state for NewGame, the new player appended for Join, the pending shot   *)
(* for Shoot, and for Confirm the recorded shot together with the cleared  *)
(* next_shot and the passed turn.  No step changes a game other than the   *)
(* one the message names.                                                  *)
(***************************************************************************)
C13_NoPartialFailure ==
    [][/\ (request'.op \in HandleOps /\ response' # "Ok") => storage' = storage
       /\ storage' # storage => (request'.op \in HandleOps /\ response' = "Ok")
       /\ \A name \in DOMAIN storage :
              request'.name # Some(name) => storage'[name] = storage[name]
       /\ (request'.op \in HandleOps /\ response' = "Ok") =>
              LET name == request'.name[1]
                  new == StateOf(storage', name)
              IN  CASE request'.op = "NewGame" ->
                           /\ storage[name] = None
                           /\ new = [players |-> <<>>, turn |-> 0, next_shot |-> None]
                    [] request'.op = "Join" ->
                           new = [StateOf(storage, name) EXCEPT
                                     !.players = Append(@, [username |-> request'.credentials[1].username,
                                                            password |-> request'.credentials[1].password,
                                                            pasture |-> request'.pasture[1]])]
                    [] request'.op = "Shoot" ->
                           new = [StateOf(storage, name) EXCEPT !.next_shot = request'.coords]
                    [] request'.op = "Confirm" ->
                           /\ new.players # StateOf(storage, name).players
                           /\ new.next_shot = None
                           /\ new.turn # StateOf(storage, name).turn]_vars

\* a Confirm was refused in a full game that holds a pending shot and a
\* recorded shot
C13_Witness ==
    \E name \in DOMAIN storage :
        /\ Handled(request, "Confirm", name)
        /\ response = "NotYourTurn"
        /\ StateOf(storage, name).next_shot # None
        /\ StateOf(storage, name).turn = 1


(***************************************************************************)
(* C14: a game is created exactly once.  NewGame(name) on a name that is   *)
(* not stored is answered Ok and stores a game with no players, turn 0 and *)
(* no pending shot; NewGame(name) on a stored name fails with              *)
(* GameAlreadyExists and leaves the storage, hence the players, turn,      *)
(* next_shot and shots of the existing game, unchanged.                    *)
(***************************************************************************)
C14_CreatedOnce ==
    [][\A name \in DOMAIN storage :
          Handled(request', "NewGame", name) =>
              IF storage[name] = None
              THEN /\ response' = "Ok"
                   /\ storage'[name] = Some([players |-> <<>>, turn |-> 0, next_shot |-> None])
              ELSE /\ response' = "GameAlreadyExists"
                   /\ storage' = storage]_vars

\* NewGame was refused for a game in play: two players, a recorded shot, the
\* turn passed and a shot pending
C14_Witness ==
    \E name \in DOMAIN storage :
        /\ Handled(request, "NewGame", name)
        /\ response = "GameAlreadyExists"
        /\ IsFull(storage, name)
        /\ StateOf(storage, name).turn = 1
        /\ StateOf(storage, name).next_shot # None
        /\ StateOf(storage, name).players[1].pasture.shots # <<>>


(***************************************************************************)
(* C15: QueryMyPasture on a full game returns the caller's own Pasture     *)
(* when the caller's credentials are those of either player, whatever the  *)
(* turn, and fails with AuthMismatch when they are those of neither.       *)
(***************************************************************************)
C15_MyPastureEitherPlayer ==
    \A name \in Names :
        (Handled(request, "MyPasture", name) /\ IsFull(storage, name)) =>
            LET state == StateOf(storage, name)
            IN  /\ \A i \in {1, 2} :
                       CallerIs(request, state, i) =>
                           /\ response = "Ok"
                           /\ binary = Some(to_binary_pasture(state.players[i].pasture))
                /\ (\A i \in {1, 2} : ~CallerIs(request, state, i)) =>
                       /\ response = "AuthMismatch"
                       /\ binary = None

(***************************************************************************)
(* C16: QueryLastShot on a full game, by either player, returns the        *)
(* coordinate held in next_shot, or none when no shot is pending; by a     *)
(* caller who is neither player it fails with AuthMismatch.                *)
(***************************************************************************)
C16_LastShotIsNextShot ==
    \A name \in Names :
        (Handled(request, "LastShot", name) /\ IsFull(storage, name)) =>
            LET state == StateOf(storage, name)
            IN  /\ (\E i \in {1, 2} : CallerIs(request, state, i)) =>
                       /\ response = "Ok"
                       /\ binary = Some(BinaryOfOptionCoords(state.next_shot))
                /\ (\A i \in {1, 2} : ~CallerIs(request, state, i)) =>
                       /\ response = "AuthMismatch"
                       /\ binary = None


(***************************************************************************)
(* Vocabulary of the readiness properties.                                 *)
(***************************************************************************)

\* the operations that go through Game::full
FullGameOps ==
    {"Shoot", "Confirm", "MyPasture", "MyShots", "LastShot"}

(***************************************************************************)
(* C17: a game that does not have exactly two players accepts only Join.   *)
(* Shoot, Confirm, QueryMyPasture, QueryMyShots and QueryLastShot on a     *)
(* stored game whose number of players is not 2 fail with GameNotReady and *)
(* store nothing; while a game has fewer than two players its next_shot is *)
(* None, its turn is 0 and no step changes the shots list of a player      *)
(* already in it.                                                          *)
(***************************************************************************)
C17_NotReadyUnlessTwoPlayers ==
    [][\A name \in DOMAIN storage :
          /\ (/\ storage[name] # None
              /\ request'.op \in FullGameOps
              /\ request'.name = Some(name)) =>
                 (Len(StateOf(storage, name).players) # 2 =>
                      /\ response' = "GameNotReady"
                      /\ binary' = None
                      /\ storage' = storage)
          /\ storage'[name] # None =>
                 (Len(StateOf(storage', name).players) < 2 =>
                      /\ StateOf(storage', name).next_shot = None
                      /\ StateOf(storage', name).turn = 0)
          /\ storage[name] # None =>
                 (Len(StateOf(storage, name).players) < 2 =>
                      /\ storage'[name] # None
                      /\ \A i \in DOMAIN StateOf(storage, name).players :
                             /\ i \in DOMAIN StateOf(storage', name).players
                             /\ StateOf(storage', name).players[i].pasture.shots
                                    = StateOf(storage, name).players[i].pasture.shots)]_vars

\* a Shoot was refused with GameNotReady by a game with one player, sent by
\* a caller other than that player
C17_Witness ==
    \E name \in DOMAIN storage :
        /\ Handled(request, "Shoot", name)
        /\ response = "GameNotReady"
        /\ storage[name] # None
        /\ Len(StateOf(storage, name).players) = 1
        /\ ~SameIdentity(StateOf(storage, name).players[1], request.credentials[1])


(***************************************************************************)
(* C18: the players of a game have pairwise distinct usernames in every    *)
(* reachable state; a Join whose username equals that of the one player    *)
(* already in the game fails with UsernameTaken and adds no player.        *)
(***************************************************************************)
C18_DistinctUsernames ==
    [][\A name \in DOMAIN storage :
          /\ (/\ Handled(request', "Join", name)
              /\ storage[name] # None) =>
                 ((/\ Len(StateOf(storage, name).players) = 1
                   /\ StateOf(storage, name).players[1].username
                          = request'.credentials[1].username) =>
                      /\ response' = "UsernameTaken"
                      /\ storage' = storage)
          /\ storage'[name] # None =>
                 \A i, j \in DOMAIN StateOf(storage', name).players :
                     i # j => StateOf(storage', name).players[i].username
                                  # StateOf(storage', name).players[j].username]_vars

(***************************************************************************)
(* Vocabulary of the shots lists.                                          *)
(***************************************************************************)

\* the number of coordinates recorded in the shots lists of a stored game
TotalShots(state) ==
    LET Sum[i \in 0..Len(state.players)] ==
            IF i = 0 THEN 0 ELSE Sum[i - 1] + Len(state.players[i].pasture.shots)
    IN  Sum[Len(state.players)]

(***************************************************************************)
(* C19: a shots list holds only confirmed shots.  The player a successful  *)
(* Join adds has an empty shots list; the shots lists of the players       *)
(* already in the game change in no step but a successful Confirm, which   *)
(* adds exactly one coordinate to them: the length of a list is the number *)
(* of successful Confirms recorded in it.                                  *)
(***************************************************************************)
C19_ShotsOnlyConfirmed ==
    [][\A name \in DOMAIN storage :
          (storage[name] # None /\ storage'[name] # None) =>
              LET old == StateOf(storage, name)
                  new == StateOf(storage', name)
              IN  /\ (Handled(request', "Join", name) /\ response' = "Ok") =>
                         /\ Len(new.players) = Len(old.players) + 1
                         /\ new.players[Len(new.players)].pasture.shots = <<>>
                  /\ (Handled(request', "Confirm", name) /\ response' = "Ok") =>
                         TotalShots(new) = TotalShots(old) + 1
                  /\ ~(Handled(request', "Confirm", name) /\ response' = "Ok") =>
                         \A i \in DOMAIN old.players :
                             new.players[i].pasture.shots = old.players[i].pasture.shots]_vars


(***************************************************************************)
(* Vocabulary of the confidentiality properties.                           *)
(***************************************************************************)

\* the queries of QueryMsg
QueryOps ==
    {"MyPasture", "MyShots", "LastShot"}

\* the herd lists Join accepts among those the model submits
AcceptedHerds ==
    {pasture.herds : pasture \in {p \in JoinPastures : pasture_verify(p) = "Ok"}}

\* the storage of a run in which the player at index i of the game joined
\* with the herds alt
WithHerds(store, name, i, alt) ==
    [store EXCEPT ![name] =
        Some([StateOf(store, name) EXCEPT !.players[i].pasture.herds = alt])]

\* the answers of the three queries to a caller
Answers(store, credentials) ==
    <<try_get_my_pasture(store, credentials),
      try_get_my_shots(store, credentials),
      try_get_last_shot(store, credentials)>>

(***************************************************************************)
(* C20: board confidentiality.  Data returned by a query is JSON null or   *)
(* the pasture of a stored player whose username and password both equal   *)
(* the caller's, so no herd layout goes to any other caller; and the       *)
(* answers of the three queries to a player of a full game are the same    *)
(* whatever herds the other player joined with, in every reachable state   *)
(* and so before any shot is confirmed.                                    *)
(***************************************************************************)
C20_BoardConfidentiality ==
    /\ binary # None =>
           /\ request.op \in QueryOps
           /\ \/ binary[1] = to_binary_unit
              \/ \E name \in DOMAIN storage :
                     /\ request.name = Some(name)
                     /\ storage[name] # None
                     /\ \E i \in DOMAIN StateOf(storage, name).players :
                            /\ SameIdentity(StateOf(storage, name).players[i],
                                            request.credentials[1])
                            /\ binary[1] = to_binary_pasture(
                                               StateOf(storage, name).players[i].pasture)
    /\ \A name \in DOMAIN storage :
           IsFull(storage, name) =>
               \A i \in {1, 2}, credentials \in CallerCredentials :
                   (/\ credentials.game = name
                    /\ SameIdentity(StateOf(storage, name).players[i], credentials)) =>
                       \A alt \in AcceptedHerds :
                           Answers(WithHerds(storage, name, Other(i), alt), credentials)
                               = Answers(storage, credentials)

\* QueryMyPasture was refused to a caller who has the username of the
\* player at index turn of a full game, holding herds, but not the password
C20_Witness ==
    \E name \in DOMAIN storage :
        /\ Handled(request, "MyPasture", name)
        /\ IsFull(storage, name)
        /\ player(StateOf(storage, name)).username = request.credentials[1].username
        /\ player(StateOf(storage, name)).password # request.credentials[1].password
        /\ player(StateOf(storage, name)).pasture.herds # <<>>
        /\ response = "AuthMismatch"
        /\ binary = None


(***************************************************************************)
(* Intersection specification: the pure functions ranges_intersect and     *)
(* Herd::intersects applied to inputs drawn in the initial state.  request *)
(* is the call with its arguments and binary its value, None until the     *)
(* function has been applied.  The ranges are over all coordinates of the  *)
(* board, ordered or not; the herds are those Herd::verify passes with at  *)
(* most MaxLength sheep.                                                   *)
(***************************************************************************)

\* most sheep of a herd in the intersection specification
MaxLength ==
    5

\* the coordinates of the board
BoardCoordinates ==
    0..(PASTURE_SIZE - 1)

\* the herds of at most MaxLength sheep that pass Herd::verify
VerifiedHerds ==
    {herd \in {Herd(x, y, length, orientation) :
                   x \in BoardCoordinates, y \in BoardCoordinates,
                   length \in 0..MaxLength, orientation \in Orientation} :
         herd_verify(herd) = "Ok"}

RangesCall(s1, e1, s2, e2) ==
    [op |-> "ranges_intersect", s1 |-> s1, e1 |-> e1, s2 |-> s2, e2 |-> e2]

IntersectsCall(herd, other) ==
    [op |-> "intersects", herd |-> herd, other |-> other]

InitIntersect ==
    /\ storage = [name \in Names |-> None]
    /\ \/ \E s1 \in BoardCoordinates, e1 \in BoardCoordinates,
             s2 \in BoardCoordinates, e2 \in BoardCoordinates :
               request = RangesCall(s1, e1, s2, e2)
       \/ \E herd \in VerifiedHerds, other \in VerifiedHerds :
               request = IntersectsCall(herd, other)
    /\ response = "Ok"
    /\ binary = None
    /\ shotTurn = [name \in Names |-> None]
    /\ shotBy = [name \in Names |-> None]

call_ranges_intersect ==
    /\ request.op = "ranges_intersect"
    /\ binary = None
    /\ binary' = Some(ranges_intersect(request.s1, request.e1, request.s2, request.e2))
    /\ UNCHANGED <<storage, request, response, shotTurn, shotBy>>

call_intersects ==
    /\ request.op = "intersects"
    /\ binary = None
    /\ binary' = Some(intersects(request.herd, request.other))
    /\ UNCHANGED <<storage, request, response, shotTurn, shotBy>>

NextIntersect ==
    \/ call_ranges_intersect
    \/ call_intersects

SpecIntersect ==
    InitIntersect /\ [][NextIntersect]_vars

(***************************************************************************)
(* Vocabulary of the intersection properties.                              *)
(***************************************************************************)

\* the closed interval [s, e] of integers
Interval(s, e) ==
    {k \in BoardCoordinates : s <= k /\ k <= e}

(***************************************************************************)
(* C21: for closed intervals [s1,e1] and [s2,e2] over the coordinates 0..9 *)
(* with s1 <= e1 and s2 <= e2, ranges_intersect(s1,e1,s2,e2) is true iff   *)
(* the intervals share an integer, that is iff s1 is in [s2,e2] or s2 is   *)
(* in [s1,e1], and it equals ranges_intersect(s2,e2,s1,e1); and for two    *)
(* herds that pass Herd::verify, Herd::intersects is true iff some cell of *)
(* the board is occupied by both.                                          *)
(***************************************************************************)
C21_RangesIntersect ==
    binary # None =>
        /\ (/\ request.op = "ranges_intersect"
            /\ request.s1 <= request.e1
            /\ request.s2 <= request.e2) =>
               /\ binary[1] = (Interval(request.s1, request.e1)
                                   \cap Interval(request.s2, request.e2) # {})
               /\ binary[1] = (\/ request.s1 \in Interval(request.s2, request.e2)
                               \/ request.s2 \in Interval(request.s1, request.e1))
               /\ binary[1] = ranges_intersect(request.s2, request.e2,
                                               request.s1, request.e1)
        /\ (/\ request.op = "intersects"
            /\ herd_verify(request.herd) = "Ok"
            /\ herd_verify(request.other) = "Ok") =>
               /\ binary[1] = (\E cell \in CellsOf(request.herd) :
                                   is_at(request.other, cell))
               /\ binary[1] = intersects(request.other, request.herd)

\* ranges_intersect answered true for ordered intervals of which the first
\* starts before the second, the second case of its body
C21_Witness ==
    /\ request.op = "ranges_intersect"
    /\ binary = Some(TRUE)
    /\ request.s1 <= request.e1
    /\ request.s2 <= request.e2
    /\ request.s1 < request.s2
    /\ request.e1 < request.e2


====
